---- MODULE Spec2Model ----
(***************************************************************************)
(* A model of the pngmehd chunk codec: ChunkType (src/src/chunk_type.rs)   *)
(* and Chunk (src/src/chunk.rs).                                           *)
(*                                                                         *)
(* Representation of values:                                               *)
(*   u8            an integer in 0..255                                    *)
(*   u32           a record [hi, lo] of two 16-bit halves (a u32 does not  *)
(*                 fit the model checker's integers)                       *)
(*   [u8; 4], Vec<u8>, &[u8]   sequences of u8                             *)
(*   &str          a sequence of chars, each char being the sequence of    *)
(*                 its UTF-8 bytes                                         *)
(*   Result<T, E>  a record with tag "Ok" or "Err"                         *)
(***************************************************************************)
EXTENDS Integers, Sequences, FiniteSets, TLC

\* ------------------------------------------------------------------ bounds
MaxDataLen == 2      \* longest payload handed to Chunk::new
MaxTrail   == 1      \* most bytes appended after a serialized chunk
MaxStrLen  == 5      \* longest string (in chars) handed to from_str

\* ------------------------------------------------------- input alphabets
\* '1' '@' 'A' 'Z' '[' '`' 'a' 'z' '{' and 0xC1 ('A' with the top bit set)
ByteAlphabet == {49, 64, 65, 90, 91, 96, 97, 122, 123, 193}
\* chars of the strings handed to from_str: "R" "u" "1" and the two-byte "é"
CharAlphabet == {<<82>>, <<117>>, <<49>>, <<195, 169>>}
\* payload bytes
DataAlphabet == {0, 255}
\* bytes appended behind a chunk
TrailAlphabet == {0, 73}

None == "None"
Unset == "Unset"

RECURSIVE SeqsUpTo(_, _)
SeqsUpTo(S, n) ==
    IF n = 0 THEN {<<>>}
    ELSE LET shorter == SeqsUpTo(S, n - 1)
         IN  shorter \cup {Append(s, x) : s \in {t \in shorter : Len(t) = n - 1}, x \in S}

\* ---------------------------------------------------------- u8 / u32 ops
\* x >> n on an unsigned value
shr(x, n) == x \div (2 ^ n)

\* the bytes in little-endian order instead
to_le_bytes(v) == <<v.lo % 256, v.lo \div 256, v.hi % 256, v.hi \div 256>>

\* u32::to_be_bytes
to_be_bytes(v) == <<v.hi \div 256, v.hi % 256, v.lo \div 256, v.lo % 256>>

\* the bytes read in little-endian order instead
from_le_bytes(b) == [hi |-> b[4] * 256 + b[3], lo |-> b[2] * 256 + b[1]]

\* u32::from_be_bytes
from_be_bytes(b) == [hi |-> b[1] * 256 + b[2], lo |-> b[3] * 256 + b[4]]

\* usize as u32 (truncating cast), for the sizes the model reaches
as_u32(n) == [hi |-> (n \div 65536) % 65536, lo |-> n % 65536]

\* ------------------------------------------- crc::crc32::checksum_ieee
\* Inside the crc crate a u32 is the set of the positions (0 the lowest) of
\* its bits that are 1, so that ^ is the symmetric difference of two sets.
bits(x, width) == {i \in 0..(width - 1) : shr(x, i) % 2 = 1}

\* the value of the bits lo..hi of v, bit lo weighing 1
RECURSIVE weigh(_, _, _)
weigh(v, lo, hi) ==
    IF lo > hi THEN 0
    ELSE (IF lo \in v THEN 1 ELSE 0) + 2 * weigh(v, lo + 1, hi)

\* v ^ w
xor32(v, w) == {i \in (v \ w) \cup (w \ v) : TRUE}

\* v >> n
shr32(v, n) == {i - n : i \in v \ (0..(n - 1))}

\* !v
not32(v) == {i \in (0..31) \ v : TRUE}

\* 0xEDB88320
IEEE == {31, 30, 29, 27, 26, 24, 23, 21, 20, 19, 15, 9, 8, 5}

\* make_table: `rounds` more rounds of
\*   value = if value & 1 == 1 { (value >> 1) ^ poly } else { value >> 1 }
RECURSIVE make_table_entry(_, _)
make_table_entry(value, rounds) ==
    IF rounds = 0 THEN value
    ELSE IF 0 \in value
         THEN make_table_entry(xor32(shr32(value, 1), IEEE), rounds - 1)
         ELSE make_table_entry(shr32(value, 1), rounds - 1)

\* IEEE_TABLE[i], i given as the set of its bits
IEEE_TABLE(i) == make_table_entry(i, 8)

\* update: reg[i] is the register after the first i bytes,
\*   value = table[((value as u8) ^ byte) as usize] ^ (value >> 8)
update(value, bytes) ==
    LET reg[i \in 0..Len(bytes)] ==
            IF i = 0 THEN not32(value)
            ELSE LET prev == reg[i - 1]
                 IN  xor32(IEEE_TABLE(xor32(prev \cap (0..7), bits(bytes[i], 8))),
                           shr32(prev, 8))
    IN  not32(reg[Len(bytes)])

checksum_ieee(bytes) ==
    LET v == update({}, bytes)
    IN  [hi |-> weigh(v, 16, 31), lo |-> weigh(v, 0, 15)]

\* ------------------------------------------------------------ ChunkType
is_ascii_alphabetic(b) == (b >= 65 /\ b <= 90) \/ (b >= 97 /\ b <= 122)

is_bit_set(x, n) ==
    IF n >= 8 \/ shr(x, n) % 2 = 0 THEN FALSE ELSE TRUE

bytes(ct) == ct.bytez

is_critical(ct) == ~is_bit_set(ct.bytez[1], 5)

\* the flag read from the first byte instead of the second
is_public_first_byte(ct) == ~is_bit_set(ct.bytez[1], 5)

is_public(ct) == ~is_bit_set(ct.bytez[2], 5)

\* the flag read from the fourth byte instead of the third
is_reserved_bit_valid_fourth_byte(ct) == ~is_bit_set(ct.bytez[4], 5)

is_reserved_bit_valid(ct) == ~is_bit_set(ct.bytez[3], 5)

is_safe_to_copy(ct) == is_bit_set(ct.bytez[4], 5)

is_valid_characters(ct) == \A i \in 1..4 : is_ascii_alphabetic(ct.bytez[i])

\* the reserved bit left unchecked
is_valid_characters_only(ct) == is_valid_characters(ct)

is_valid(ct) == is_valid_characters(ct) /\ is_reserved_bit_valid(ct)

Ok(v) == [tag |-> "Ok", val |-> v]
Err(e, a) == [tag |-> "Err", err |-> e, args |-> a]

\* impl TryFrom<[u8; 4]> for ChunkType
ChunkType_try_from(value) ==
    LET chunk_type == [bytez |-> value]
    IN  IF is_valid(chunk_type) THEN Ok(chunk_type)
        ELSE Err("InvalidBytesError", <<>>)

\* str::as_bytes: the UTF-8 bytes of the chars, in order
RECURSIVE str_as_bytes(_)
str_as_bytes(s) == IF s = <<>> THEN <<>> ELSE Head(s) \o str_as_bytes(Tail(s))

\* from_str validating as try_from does, reserved bit included
from_str_is_valid(s) ==
    LET bytez == str_as_bytes(s)
    IN  IF Len(bytez) # 4 THEN Err("ByteLengthError", <<Len(bytez)>>)
        ELSE LET chunk == [bytez |-> <<bytez[1], bytez[2], bytez[3], bytez[4]>>]
             IN  IF is_valid(chunk) THEN Ok(chunk)
                 ELSE Err("InvalidBytesError", <<>>)

\* impl FromStr for ChunkType
from_str(s) ==
    LET bytez == str_as_bytes(s)
    IN  IF Len(bytez) # 4 THEN Err("ByteLengthError", <<Len(bytez)>>)
        ELSE LET chunk == [bytez |-> <<bytez[1], bytez[2], bytez[3], bytez[4]>>]
             IN  IF is_valid_characters(chunk) THEN Ok(chunk)
                 ELSE Err("InvalidBytesError", <<>>)

\* ---------------------------------------------------------------- Chunk
METADATA_BYTES == 12

Chunk_new(chunk_type, chunk_data) ==
    [chunk_type |-> chunk_type, chunk_data |-> chunk_data]

length(c) == as_u32(Len(c.chunk_data))

chunk_type(c) == c.chunk_type

data(c) == c.chunk_data

\* the checksum taken over the payload followed by the type-code
crc_data_first(c) == checksum_ieee(c.chunk_data \o bytes(c.chunk_type))

\* the checksum taken over the payload alone
crc_data_only(c) == checksum_ieee(c.chunk_data)

crc(c) == checksum_ieee(bytes(c.chunk_type) \o c.chunk_data)

as_bytes(c) ==
    to_be_bytes(length(c)) \o bytes(chunk_type(c)) \o data(c)
        \o to_be_bytes(crc(c))

\* the length narrowed to its low byte
usize_try_from_u8(v) == [hi |-> 0, lo |-> v.lo % 256]

\* usize::try_from(u32): a usize holds every u32, so the value is kept
usize_try_from(v) == v

\* Vec::len as a size
len(v) == as_u32(Len(v))

\* read_exact failing unless a byte is left behind the n it reads
read_exact_strict(value, pos, n) ==
    IF n.hi = 0 /\ Len(value) - pos > n.lo
    THEN [ok |-> TRUE, buf |-> SubSeq(value, pos + 1, pos + n.lo), pos |-> pos + n.lo]
    ELSE [ok |-> FALSE, buf |-> <<>>, pos |-> pos]

\* Read::read_exact on the BufReader over the slice: n bytes from position
\* pos, or UnexpectedEof when fewer than n remain.  n is a size [hi, lo];
\* the buffers of the model are shorter than 65536 bytes.
read_exact(value, pos, n) ==
    IF n.hi = 0 /\ Len(value) - pos >= n.lo
    THEN [ok |-> TRUE, buf |-> SubSeq(value, pos + 1, pos + n.lo), pos |-> pos + n.lo]
    ELSE [ok |-> FALSE, buf |-> <<>>, pos |-> pos]

\* One run of try_from: the Result it returns, and what the run left in
\* its locals (Unset: the run returned before the assignment).
Run(result, length_, crc_provided, crc_computed, pos) ==
    [result |-> result, length |-> length_, crc_provided |-> crc_provided,
     crc_computed |-> crc_computed, pos |-> pos]

\* impl TryFrom<&[u8]> for Chunk
Chunk_try_from(value) ==
    LET r1 == read_exact(value, 0, as_u32(4)) IN
    IF ~r1.ok THEN Run(Err("UnexpectedEof", <<>>), Unset, Unset, Unset, r1.pos)
    ELSE
    LET length_ == usize_try_from(from_be_bytes(r1.buf))
        r2 == read_exact(value, r1.pos, as_u32(4)) IN
    IF ~r2.ok THEN Run(Err("UnexpectedEof", <<>>), length_, Unset, Unset, r2.pos)
    ELSE
    LET ct == ChunkType_try_from(r2.buf) IN
    IF ct.tag = "Err" THEN Run(ct, length_, Unset, Unset, r2.pos)
    ELSE
    LET r3 == read_exact(value, r2.pos, length_) IN
    IF ~r3.ok THEN Run(Err("UnexpectedEof", <<>>), length_, Unset, Unset, r3.pos)
    ELSE
    LET chunk_data == r3.buf IN
    IF len(chunk_data) # length_
    THEN Run(Err("LengthError", <<length_, len(chunk_data)>>), length_, Unset, Unset, r3.pos)
    ELSE
    LET new_chunk == [chunk_type |-> ct.val, chunk_data |-> chunk_data]
        r4 == read_exact(value, r3.pos, as_u32(4)) IN
    IF ~r4.ok THEN Run(Err("UnexpectedEof", <<>>), length_, Unset, Unset, r4.pos)
    ELSE
    LET crc_provided == from_be_bytes(r4.buf)
        crc_computed == crc(new_chunk) IN
    IF crc_provided # crc_computed
    THEN Run(Err("CrcMismatchError", <<crc_provided, crc_computed>>),
             length_, crc_provided, crc_computed, r4.pos)
    ELSE Run(Ok(new_chunk), length_, crc_provided, crc_computed, r4.pos)

\* -------------------------------------------------------- state machine
\* A scenario builds a ChunkType, a Chunk from it, serializes the chunk,
\* hands the bytes (as they are, or damaged on the way) to try_from; or it
\* hands try_from a buffer assembled field by field, as the unit tests do.
VARIABLES
    pc,           \* position in the scenario
    type_arg,     \* the argument of the ChunkType constructor that ran
    type_result,  \* the Result of that constructor
    flags,        \* what the four property methods returned
    chunk,        \* the Chunk built by Chunk::new
    out,          \* the Vec<u8> as_bytes returned
    tamper,       \* what happened to the bytes before they were parsed
    value,        \* the slice handed to Chunk::try_from
    parsed        \* the run of Chunk::try_from on value

vars == <<pc, type_arg, type_result, flags, chunk, out, tamper, value, parsed>>

Payloads == SeqsUpTo(DataAlphabet, MaxDataLen)
Trails == SeqsUpTo(TrailAlphabet, MaxTrail) \ {<<>>}
Strings == SeqsUpTo(CharAlphabet, MaxStrLen)
ByteQuads == [1..4 -> ByteAlphabet]
\* the type-codes chunks are built from: "RuSt" and what differs from it in
\* one byte
NearQuads ==
    {[<<82, 117, 83, 116>> EXCEPT ![i] = b] : i \in 1..4, b \in ByteAlphabet}
        \cup {<<82, 117, 83, 116>>}

\* type-codes of the buffers assembled by hand: "RuSt", "Rust", "Ru1t"
RawTypes == {<<82, 117, 83, 116>>, <<82, 117, 115, 116>>, <<82, 117, 49, 116>>}
\* length fields of the buffers assembled by hand
LenFields ==
    {<<0, 0, 0, n>> : n \in 0..(MaxDataLen + 1)}
        \cup {<<0, 0, 1, 0>>, <<0, 1, 0, 0>>, <<255, 255, 255, 255>>}

Tamper(kind, pos, bit, extra) ==
    [kind |-> kind, pos |-> pos, bit |-> bit, extra |-> extra]

\* buf with bit `bit` of its byte number pos (from 1) inverted
flip(buf, pos, bit) ==
    [buf EXCEPT ![pos] = IF shr(@, bit) % 2 = 1 THEN @ - 2 ^ bit ELSE @ + 2 ^ bit]

Init ==
    /\ pc = "start"
    /\ type_arg = None
    /\ type_result = None
    /\ flags = None
    /\ chunk = None
    /\ out = None
    /\ tamper = None
    /\ value = None
    /\ parsed = None

\* ChunkType::try_from(b), b drawn from Q
FromBytesOf(Q) ==
    /\ pc = "start"
    /\ \E b \in Q :
        /\ type_arg' = [fn |-> "try_from", value |-> b]
        /\ type_result' = ChunkType_try_from(b)
    /\ pc' = "typed"
    /\ UNCHANGED <<flags, chunk, out, tamper, value, parsed>>

FromBytes == FromBytesOf(ByteQuads)

FromBytesNear == FromBytesOf(NearQuads)

\* ChunkType::from_str(s)
FromStr ==
    /\ pc = "start"
    /\ \E s \in Strings :
        /\ type_arg' = [fn |-> "from_str", value |-> s]
        /\ type_result' = from_str(s)
    /\ pc' = "typed"
    /\ UNCHANGED <<flags, chunk, out, tamper, value, parsed>>

\* is_critical, is_public, is_reserved_bit_valid, is_safe_to_copy
Classify ==
    /\ pc = "typed"
    /\ type_result.tag = "Ok"
    /\ flags' = [is_critical |-> is_critical(type_result.val),
                 is_public |-> is_public(type_result.val),
                 is_reserved_bit_valid |-> is_reserved_bit_valid(type_result.val),
                 is_safe_to_copy |-> is_safe_to_copy(type_result.val)]
    /\ pc' = "classified"
    /\ UNCHANGED <<type_arg, type_result, chunk, out, tamper, value, parsed>>

\* Chunk::new(t, d)
New ==
    /\ pc = "typed"
    /\ type_result.tag = "Ok"
    /\ \E d \in Payloads : chunk' = Chunk_new(type_result.val, d)
    /\ pc' = "built"
    /\ UNCHANGED <<type_arg, type_result, flags, out, tamper, value, parsed>>

\* chunk.as_bytes()
AsBytes ==
    /\ pc = "built"
    /\ out' = as_bytes(chunk)
    /\ pc' = "serialized"
    /\ UNCHANGED <<type_arg, type_result, flags, chunk, tamper, value, parsed>>

\* the serialized bytes reach the parser as they are
Keep ==
    /\ pc = "serialized"
    /\ value' = out
    /\ tamper' = Tamper("none", 0, 0, <<>>)
    /\ pc' = "fed"
    /\ UNCHANGED <<type_arg, type_result, flags, chunk, out, parsed>>

\* one bit of the type-code or of the payload of the serialized bytes is
\* inverted
FlipBit ==
    /\ pc = "serialized"
    /\ \E pos \in 5..(Len(out) - 4), bit \in 0..7 :
        /\ value' = flip(out, pos, bit)
        /\ tamper' = Tamper("flip", pos, bit, <<>>)
    /\ pc' = "fed"
    /\ UNCHANGED <<type_arg, type_result, flags, chunk, out, parsed>>

\* bytes follow the serialized chunk in the buffer
AppendTrail ==
    /\ pc = "serialized"
    /\ \E x \in Trails :
        /\ value' = out \o x
        /\ tamper' = Tamper("append", 0, 0, x)
    /\ pc' = "fed"
    /\ UNCHANGED <<type_arg, type_result, flags, chunk, out, parsed>>

\* the buffer ends before the serialized chunk does
Truncate ==
    /\ pc = "serialized"
    /\ \E n \in 0..(Len(out) - 1) :
        /\ value' = SubSeq(out, 1, n)
        /\ tamper' = Tamper("truncate", n, 0, <<>>)
    /\ pc' = "fed"
    /\ UNCHANGED <<type_arg, type_result, flags, chunk, out, parsed>>

\* a buffer assembled from a length field, four type bytes, a payload and
\* a checksum field: the right checksum, the right one altered by 1, half
\* of it, or none
FeedRaw ==
    /\ pc = "start"
    /\ \E l \in LenFields, t \in RawTypes, d \in Payloads,
          c \in {"right", "altered", "half", "absent"} :
        LET sum == to_be_bytes(checksum_ieee(t \o d))
            field == CASE c = "right" -> sum
                       [] c = "altered" -> flip(sum, 4, 0)
                       [] c = "half" -> SubSeq(sum, 1, 2)
                       [] OTHER -> <<>>
        IN  /\ value' = l \o t \o d \o field
            /\ tamper' = Tamper("raw", 0, 0, <<>>)
    /\ pc' = "fed"
    /\ UNCHANGED <<type_arg, type_result, flags, chunk, out, parsed>>

\* Chunk::try_from(value)
TryFrom ==
    /\ pc = "fed"
    /\ parsed' = Chunk_try_from(value)
    /\ pc' = "done"
    /\ UNCHANGED <<type_arg, type_result, flags, chunk, out, tamper, value>>

\* the chunk codec: a type-code, a chunk, its bytes, a parse
Next ==
    \/ FromBytesNear
    \/ FromStr
    \/ New
    \/ AsBytes
    \/ Keep
    \/ FlipBit
    \/ AppendTrail
    \/ Truncate
    \/ FeedRaw
    \/ TryFrom

Spec == Init /\ [][Next]_vars

\* the type-code alone, over every four bytes of the alphabet
NextType ==
    \/ FromBytes
    \/ FromStr
    \/ Classify

SpecType == Init /\ [][NextType]_vars

\* ------------------------------------------------------------ properties
\* The claims speak of letters, bits and big-endian fields; these say the
\* same without the operators of the model of the code.
Letter(b) == b \in (65..90) \cup (97..122)
Bit5Clear(b) == (b % 64) < 32
FourLetters(b) == \A i \in 1..4 : Letter(b[i])
Accepted(b) == FourLetters(b) /\ Bit5Clear(b[3])
Field32(b) == [hi |-> 256 * b[1] + b[2], lo |-> 256 * b[3] + b[4]]
\* the length field of a buffer of at least 4 bytes
Declared(buf) == Field32(SubSeq(buf, 1, 4))
\* the declared length is `small`: the buffer can hold that many bytes
Holds(buf) ==
    /\ Len(buf) >= 8
    /\ Declared(buf).hi = 0
    /\ Len(buf) >= METADATA_BYTES + Declared(buf).lo

\* C5: try_from on 4 bytes succeeds exactly when all 4 are ASCII letters and
\* bit 5 of the third is clear, and then bytes() are the 4 input bytes;
\* in every other case it fails with InvalidBytesError.
C5_FromBytes ==
    (pc = "typed" /\ type_arg.fn = "try_from") =>
        LET b == type_arg.value
        IN  IF Accepted(b)
            THEN type_result.tag = "Ok" /\ bytes(type_result.val) = b
            ELSE type_result = Err("InvalidBytesError", <<>>)

C5_Witness ==
    /\ pc = "typed"
    /\ type_arg.fn = "try_from"
    /\ type_result.tag = "Ok"
    /\ type_arg.value[1] = 122
    /\ type_arg.value[3] = 90

\* C6: from_str fails with ByteLengthError when the string is not 4 bytes
\* long, with InvalidBytesError when it is and some byte is no ASCII letter,
\* and succeeds otherwise with those 4 bytes, the reserved bit unchecked: a
\* code whose third byte has bit 5 set is accepted here and rejected by
\* try_from.
C6_FromStr ==
    (pc = "typed" /\ type_arg.fn = "from_str") =>
        LET b == str_as_bytes(type_arg.value)
        IN  CASE Len(b) # 4 ->
                   /\ type_result.tag = "Err"
                   /\ type_result.err = "ByteLengthError"
              [] Len(b) = 4 /\ ~FourLetters(b) ->
                   type_result = Err("InvalidBytesError", <<>>)
              [] OTHER ->
                   /\ type_result.tag = "Ok"
                   /\ bytes(type_result.val) = b
                   /\ ~Bit5Clear(b[3]) => ChunkType_try_from(b).tag = "Err"

C6_Witness ==
    /\ pc = "typed"
    /\ type_arg.fn = "from_str"
    /\ type_result.tag = "Ok"
    /\ bytes(type_result.val) = <<82, 117, 117, 82>>
    /\ ChunkType_try_from(<<82, 117, 117, 82>>).tag = "Err"

\* C7: is_critical is true exactly when bit 5 of byte 0 is clear, is_public
\* when bit 5 of byte 1 is clear, is_reserved_bit_valid when bit 5 of byte 2
\* is clear, is_safe_to_copy when bit 5 of byte 3 is set; and no result
\* changes when another byte, or another bit of its own byte, changes.
SameFlagsBut(f, ct, i) ==
    /\ i # 1 => is_critical(ct) = f.is_critical
    /\ i # 2 => is_public(ct) = f.is_public
    /\ i # 3 => is_reserved_bit_valid(ct) = f.is_reserved_bit_valid
    /\ i # 4 => is_safe_to_copy(ct) = f.is_safe_to_copy

C7_Independence ==
    pc = "classified" =>
        LET b == bytes(type_result.val)
        IN  /\ flags.is_critical = Bit5Clear(b[1])
            /\ flags.is_public = Bit5Clear(b[2])
            /\ flags.is_reserved_bit_valid = Bit5Clear(b[3])
            /\ flags.is_safe_to_copy = ~Bit5Clear(b[4])
            /\ \A i \in 1..4, v \in 0..255 :
                   SameFlagsBut(flags, [bytez |-> [b EXCEPT ![i] = v]], i)
            /\ \A i \in 1..4, k \in (0..7) \ {5} :
                   SameFlagsBut(flags, [bytez |-> flip(b, i, k)], 0)

C7_Witness ==
    /\ pc = "classified"
    /\ flags.is_critical
    /\ ~flags.is_public
    /\ flags.is_reserved_bit_valid
    /\ flags.is_safe_to_copy

\* C8: as_bytes returns 12 + L bytes: L as a big-endian 32-bit value, the 4
\* type-code bytes, the payload in order, and the big-endian CRC32 of the
\* type-code bytes followed by the payload.
C8_WireLayout ==
    pc = "serialized" =>
        LET L == Len(chunk.chunk_data)
        IN  /\ Len(out) = 12 + L
            /\ out[1] = 0 /\ out[2] = 0 /\ 256 * out[3] + out[4] = L
            /\ \A i \in 1..4 : out[4 + i] = chunk.chunk_type.bytez[i]
            /\ \A i \in 1..L : out[8 + i] = chunk.chunk_data[i]
            /\ Field32(SubSeq(out, 9 + L, 12 + L))
                   = checksum_ieee(chunk.chunk_type.bytez \o chunk.chunk_data)

C8_Witness ==
    /\ pc = "serialized"
    /\ Len(chunk.chunk_data) = 2
    /\ chunk.chunk_data[1] # chunk.chunk_data[2]
    /\ Len(out) = 14

\* try_from returned this chunk
ReturnedChunk(run, c) == run.result.tag = "Ok" /\ run.result.val = c
\* try_from failed with this kind of error
Failed(run, e) == run.result.tag = "Err" /\ run.result.err = e

\* C1 as stated: for a TypeCode either constructor returned and any payload,
\* parsing the serialization of Chunk::new(t, d) succeeds and returns a chunk
\* equal to it in type-code, payload and checksum.
C1_RoundTripAnyConstructor ==
    (pc = "done" /\ tamper.kind = "none") =>
        /\ parsed.result.tag = "Ok"
        /\ parsed.result.val.chunk_type = chunk.chunk_type
        /\ parsed.result.val.chunk_data = chunk.chunk_data
        /\ crc(parsed.result.val) = crc(chunk)

\* C1 amended: the round trip holds for every TypeCode whose reserved bit is
\* clear (the ones try_from accepts), whichever constructor returned it; for
\* a TypeCode from_str returned with the reserved bit set the parse fails
\* with InvalidBytesError.
C1_RoundTrip ==
    (pc = "done" /\ tamper.kind = "none") =>
        IF Bit5Clear(chunk.chunk_type.bytez[3])
        THEN /\ parsed.result.tag = "Ok"
             /\ parsed.result.val.chunk_type = chunk.chunk_type
             /\ parsed.result.val.chunk_data = chunk.chunk_data
             /\ crc(parsed.result.val) = crc(chunk)
             /\ parsed.crc_provided = crc(chunk)
        ELSE Failed(parsed, "InvalidBytesError")

C1_Witness ==
    /\ pc = "done"
    /\ tamper.kind = "none"
    /\ type_arg.fn = "from_str"
    /\ Len(chunk.chunk_data) = 2
    /\ ReturnedChunk(parsed, chunk)

\* C2: on a buffer holding a length L, a type-code try_from accepts, L
\* payload bytes and 4 checksum bytes, the parse succeeds exactly when the
\* big-endian checksum on the wire equals the CRC32 of the type-code bytes
\* followed by the payload; when they differ it fails with
\* CrcMismatchError(wire, computed) and returns no chunk.
C2_ChecksumVerification ==
    (pc = "done" /\ Holds(value) /\ Accepted(SubSeq(value, 5, 8))) =>
        LET L == Declared(value).lo
            wire == Field32(SubSeq(value, 9 + L, 12 + L))
            computed == checksum_ieee(SubSeq(value, 5, 8 + L))
        IN  IF wire = computed
            THEN parsed.result.tag = "Ok"
            ELSE parsed.result = Err("CrcMismatchError", <<wire, computed>>)

C2_Witness ==
    /\ pc = "done"
    /\ tamper.kind = "raw"
    /\ Holds(value)
    /\ Declared(value).lo = 2
    /\ Failed(parsed, "CrcMismatchError")
    /\ parsed.result.args[1] # parsed.result.args[2]
    /\ parsed.result.args[1] = Field32(SubSeq(value, 11, 14))

\* a bit of the type-code or of the payload of a serialization that parses
\* was inverted, and nothing else
FlippedInside ==
    /\ pc = "done"
    /\ tamper.kind = "flip"
    /\ tamper.pos \in 5..(8 + Len(chunk.chunk_data))
    /\ Chunk_try_from(out).result.tag = "Ok"

\* C3 as stated: inverting one bit of the type-code or of the payload of a
\* serialization that parses makes the parse fail with CrcMismatchError.
C3_FlipAlwaysCrcMismatch ==
    FlippedInside => Failed(parsed, "CrcMismatchError")

\* C3 amended: such a flip never lets the parse succeed; it fails with
\* CrcMismatchError when the bit is in the payload, or is in the type-code
\* and leaves four ASCII letters with the reserved bit clear, and with
\* InvalidBytesError when the type-code is no longer one try_from accepts.
C3_FlipDetected ==
    FlippedInside =>
        IF Accepted(SubSeq(value, 5, 8))
        THEN Failed(parsed, "CrcMismatchError")
        ELSE Failed(parsed, "InvalidBytesError")

C3_Witness ==
    /\ FlippedInside
    /\ tamper.pos \in 5..8
    /\ Failed(parsed, "CrcMismatchError")

\* the declared length exceeds what the buffer holds behind its header
DeclaredTooLong ==
    /\ pc = "done"
    /\ Len(value) >= 8
    /\ \/ Declared(value).hi > 0
       \/ Declared(value).lo > Len(value) - 8

\* C4 as stated: when the declared length exceeds the bytes remaining after
\* the 8-byte header the parse fails with UnexpectedEof or LengthError, and
\* the checksum is neither computed nor compared.
C4_TooLongIsTruncated ==
    DeclaredTooLong =>
        /\ Failed(parsed, "UnexpectedEof") \/ Failed(parsed, "LengthError")
        /\ parsed.crc_computed = Unset

\* C4 amended: in that case the parse fails with InvalidBytesError when
\* try_from rejects the type-code bytes, and with UnexpectedEof or
\* LengthError otherwise; in both cases the checksum is neither read,
\* computed nor compared.
C4_LengthBeforeChecksum ==
    DeclaredTooLong =>
        /\ IF Accepted(SubSeq(value, 5, 8))
           THEN Failed(parsed, "UnexpectedEof") \/ Failed(parsed, "LengthError")
           ELSE Failed(parsed, "InvalidBytesError")
        /\ parsed.crc_computed = Unset
        /\ parsed.crc_provided = Unset

C4_Witness ==
    /\ DeclaredTooLong
    /\ Accepted(SubSeq(value, 5, 8))
    /\ Declared(value).hi = 0
    /\ Failed(parsed, "UnexpectedEof")
    /\ Len(value) >= 12

\* C9: the outcome of a parse depends only on the first 12 + L bytes of the
\* buffer: whatever follows them, the parse returns the same result, with
\* the same type-code and payload when it succeeds, and reads no byte
\* behind them.
C9_TrailingIgnored ==
    (pc = "done" /\ Holds(value)) =>
        LET used == SubSeq(value, 1, METADATA_BYTES + Declared(value).lo)
        IN  /\ parsed.pos <= Len(used)
            /\ parsed.result.tag = "Ok" => parsed.pos = Len(used)
            /\ \A x \in Trails \cup {<<>>} :
                   Chunk_try_from(used \o x).result = parsed.result

C9_Witness ==
    /\ pc = "done"
    /\ tamper.kind = "append"
    /\ tamper.extra = <<73>>
    /\ Len(chunk.chunk_data) = 2
    /\ ReturnedChunk(parsed, chunk)
    /\ Len(value) = parsed.pos + 1

\* C10: when a parse succeeds with declared length L, as_bytes of the chunk
\* it returned is the first 12 + L bytes of the buffer, and the chunk's
\* type-code is four ASCII letters with the reserved bit clear.
C10_ParseThenSerialize ==
    (pc = "done" /\ parsed.result.tag = "Ok") =>
        /\ Holds(value)
        /\ as_bytes(parsed.result.val)
               = SubSeq(value, 1, METADATA_BYTES + Declared(value).lo)
        /\ Accepted(bytes(parsed.result.val.chunk_type))

C10_Witness ==
    /\ pc = "done"
    /\ tamper.kind = "raw"
    /\ parsed.result.tag = "Ok"
    /\ Len(parsed.result.val.chunk_data) = 1
    /\ as_bytes(parsed.result.val) = value

====
